---------------------------- MODULE Spec2Model ----------------------------
(***************************************************************************)
(* A model of fyodor/core.py: load_files, geodetic_to_cartesian,           *)
(* pwv_integral and pwv.                                                   *)
(*                                                                         *)
(* Numbers.  The program computes in IEEE-754 doubles.  A double is        *)
(* modelled as a record [k, v]: k = "fin" with v an integer in a fixed     *)
(* quantum (stated where the quantity is introduced), k = "nan", or        *)
(* k = "inf" with v = 1 or -1.  Operations on finite values round to the   *)
(* quantum; operations on nan/inf follow IEEE-754 (numpy raises no         *)
(* exception for them, it warns).  Python indices are kept 0-based in the  *)
(* state; sequences are 1-based, so Python's a[i] is a[i + 1].             *)
(***************************************************************************)
EXTENDS Integers, Sequences, FiniteSets, TLC

\* ------------------------------------------------------------------ bounds
\* Number of sample rows handed to pwv_integral by the pure-function checks.
MaxRows == 2

\* Largest finite double (sys.float_info.max), which np.nan_to_num puts in
\* the place of an infinity.  Model stand-in: the largest model integer.
FloatMax == 2147483647

\* ---------------------------------------------------------- float domain
Fin(n) == [k |-> "fin", v |-> n]
NaN == [k |-> "nan", v |-> 0]
PInf == [k |-> "inf", v |-> 1]
NInf == [k |-> "inf", v |-> -1]

IsFin(a) == a.k = "fin"
IsNaN(a) == a.k = "nan"
IsInf(a) == a.k = "inf"

Abs(n) == IF n < 0 THEN -n ELSE n
Sgn(n) == IF n < 0 THEN -1 ELSE IF n > 0 THEN 1 ELSE 0

\* Integer quotient rounded to nearest (ties away from zero), b # 0.
RDiv(a, b) == Sgn(a) * Sgn(b) * ((2 * Abs(a) + Abs(b)) \div (2 * Abs(b)))

FNeg(a) == IF IsNaN(a) THEN NaN ELSE [k |-> a.k, v |-> -a.v]

FAdd(a, b) ==
    IF IsNaN(a) \/ IsNaN(b) THEN NaN
    ELSE IF IsInf(a) /\ IsInf(b) THEN (IF a.v = b.v THEN a ELSE NaN)
    ELSE IF IsInf(a) THEN a
    ELSE IF IsInf(b) THEN b
    ELSE Fin(a.v + b.v)

FSub(a, b) == FAdd(a, FNeg(b))

\* Product; for two finite values the integer product (the caller states
\* the quantum of the result).
FMul(a, b) ==
    IF IsNaN(a) \/ IsNaN(b) THEN NaN
    ELSE IF IsInf(a) \/ IsInf(b)
         THEN (IF Sgn(a.v) * Sgn(b.v) = 0 THEN NaN
               ELSE [k |-> "inf", v |-> Sgn(a.v) * Sgn(b.v)])
    ELSE Fin(a.v * b.v)

\* Quotient a / b with the finite result scaled by s (s > 0) and rounded:
\* fin / fin = round(s * a / b).  x / 0 is +-inf, 0 / 0 is nan (numpy).
FDiv(a, b, s) ==
    IF IsNaN(a) \/ IsNaN(b) THEN NaN
    ELSE IF IsInf(a) /\ IsInf(b) THEN NaN
    ELSE IF IsInf(a) THEN [k |-> "inf", v |-> a.v * (IF b.v < 0 THEN -1 ELSE 1)]
    ELSE IF IsInf(b) THEN Fin(0)
    ELSE IF b.v = 0 THEN (IF a.v = 0 THEN NaN ELSE [k |-> "inf", v |-> Sgn(a.v)])
    ELSE Fin(RDiv(s * a.v, b.v))


\* ------------------------------------------------------- numpy broadcasting
\* A 2-D numpy array is a sequence of rows.  np.array([]) has shape (0,);
\* np.array of n lists of k values has shape (n, k).
Shape(A) == IF A = <<>> THEN <<0>> ELSE <<Len(A), Len(A[1])>>

\* len() of a numpy array: its first dimension.
NpLen(A) == Shape(A)[1]

\* One dimension of numpy's broadcast rule; -1 when the sizes are incompatible.
BDim(a, b) == IF a = b THEN a ELSE IF a = 1 THEN b ELSE IF b = 1 THEN a ELSE -1

\* Shapes are aligned at the trailing dimension, a missing leading one is 1.
Lead(s) == IF Len(s) = 1 THEN 1 ELSE s[1]
Trail(s) == s[Len(s)]
Broadcast(s, t) == <<BDim(Lead(s), Lead(t)), BDim(Trail(s), Trail(t))>>
BroadcastOK(s, t) == BDim(Lead(s), Lead(t)) # -1 /\ BDim(Trail(s), Trail(t)) # -1

\* Element [j, i] (1-based here) of A seen through broadcasting: a dimension
\* of size 1 is repeated.
Elem(A, j, i) ==
    LET row == A[IF Len(A) = 1 THEN 1 ELSE j]
    IN  row[IF Len(row) = 1 THEN 1 ELSE i]

\* ------------------------------------------------------------- pwv_integral
\* Quanta: LVT 0.01 degC, LVM 0.001, pressure 1 Pa, ev 0.1 Pa, q 1e-6,
\* f 1e-6 mm/Pa, PWV 0.5e-6 mm.
rho_w == 1000
g_centi == 981

\* 10 ** (d / 10), 10 ** (d / 100), 10 ** (d / 1000) for a digit d, times 10000.
Pow10Tenths == <<10000, 12589, 15849, 19953, 25119, 31623, 39811, 50119, 63096, 79433>>
Pow10Hundredths == <<10000, 10233, 10471, 10715, 10965, 11220, 11482, 11749, 12023, 12303>>
Pow10Thousandths == <<10000, 10023, 10046, 10069, 10093, 10116, 10139, 10162, 10186, 10209>>

RECURSIVE IntPow10(_)
IntPow10(k) == IF k <= 0 THEN 1 ELSE 10 * IntPow10(k - 1)

\* 10 ** x for x in 0.001 (numpy's power): result in 0.001.  An exponent
\* of 6 or more overflows the model's integers, as 10 ** 309 overflows a
\* double, and gives +inf.
Pow10(x) ==
    IF IsNaN(x) THEN NaN
    ELSE IF IsInf(x) THEN (IF x.v > 0 THEN PInf ELSE Fin(0))
    ELSE LET k == x.v \div 1000
             r == x.v % 1000
             m == RDiv(RDiv(Pow10Tenths[(r \div 100) + 1] * Pow10Hundredths[((r \div 10) % 10) + 1], 10000)
                       * Pow10Thousandths[(r % 10) + 1], 100000)
         IN  IF k >= 6 THEN PInf
             ELSE IF k >= 0 THEN Fin(m * IntPow10(k))
             ELSE IF k < -5 THEN Fin(0)
             ELSE Fin(RDiv(m, IntPow10(-k)))

\* ev = 100 * 6.11 * LVM * 10 ** ((7.5 * LVT) / (LVT + 237.15)), in 0.1 Pa.
PartialPressure(lvt, lvm) ==
    LET ex == FDiv(FMul(Fin(75), lvt), FAdd(lvt, Fin(23715)), 100)
        c1 == FDiv(FMul(Fin(611), lvm), Fin(100), 1)
    IN  FDiv(FMul(c1, Pow10(ex)), Fin(1000), 1)

\* q = (0.622 * ev) / (Pi - 0.378 * ev), in 1e-6; 0.378 * ev rounded to 1 Pa.
SpecificHumidity(ev, p) ==
    FDiv(FMul(Fin(622), ev), FSub(p, FDiv(FMul(Fin(378), ev), Fin(10000), 1)), 100)

\* C = (-1) / (rho_w * g), in 1e-8 (g is carried in 0.01 m/s**2).
C == RDiv(-100000000, (rho_w * g_centi) \div 100)

\* 1000 * C: the same integer, read in 1e-5.
KC == C

\* f = 1000 * C * q, in 1e-6.
Integrand(lvt, lvm, p) ==
    FDiv(FMul(Fin(KC), SpecificHumidity(PartialPressure(lvt, lvm), p)), Fin(100000), 1)

\* f[j, i] of the broadcast integrand array (j, i 1-based).
FCell(LVT_, LVM_, Pi_, j, i) == Integrand(Elem(LVT_, j, i), Elem(LVM_, j, i), Pi_[i])

\* The inner loop: sum over i = 1 .. len(Pi) - 1 (0-based) of
\* (Pi[i] - Pi[i-1]) * ((f[j,i] + f[j,i-1]) / 2).  The halving is exact in
\* binary floating point; the sum is carried in half quanta to keep it exact.
TrapezoidTermMutSwapped(LVT_, LVM_, Pi_, j, i) ==
    FMul(FSub(Pi_[i - 1], Pi_[i]),
         FAdd(FCell(LVT_, LVM_, Pi_, j, i), FCell(LVT_, LVM_, Pi_, j, i - 1)))

TrapezoidTerm(LVT_, LVM_, Pi_, j, i) ==
    FMul(FSub(Pi_[i], Pi_[i - 1]),
         FAdd(FCell(LVT_, LVM_, Pi_, j, i), FCell(LVT_, LVM_, Pi_, j, i - 1)))

RECURSIVE TrapezoidSum(_, _, _, _, _)
TrapezoidSum(LVT_, LVM_, Pi_, j, n) ==
    IF n <= 1 THEN Fin(0)
    ELSE FAdd(TrapezoidSum(LVT_, LVM_, Pi_, j, n - 1), TrapezoidTerm(LVT_, LVM_, Pi_, j, n))

\* np.nan_to_num: nan becomes 0.0, +inf the largest finite double, -inf the
\* most negative one.
NanToNumMutKeepsInf(a) == IF IsNaN(a) THEN Fin(0) ELSE a

NanToNum(a) ==
    IF IsNaN(a) THEN Fin(0)
    ELSE IF IsInf(a) THEN Fin(a.v * FloatMax)
    ELSE a

\* pwv_integral(LVT, LVM, Pi): [err, val].  The elementwise lines raise
\* ValueError when the operand shapes cannot be broadcast together.
pwv_integral(LVT_, LVM_, Pi_) ==
    LET evShape == Broadcast(Shape(LVM_), Shape(LVT_))
    IN  IF ~BroadcastOK(Shape(LVM_), Shape(LVT_)) \/ ~BroadcastOK(<<Len(Pi_)>>, evShape)
        THEN [err |-> "ValueError", val |-> <<>>]
        ELSE [err |-> "",
              val |-> [j \in 1..NpLen(LVT_) |->
                          NanToNum(TrapezoidSum(LVT_, LVM_, Pi_, j, Len(Pi_)))]]

\* ------------------------------------------------------------ numpy maths
\* Angles in whole degrees; sines, cosines and tangents in 0.001; scan
\* angles in 0.001 rad; lengths in km (geometry) or m (scale heights).

\* sin of x degrees, 0 <= x <= 180 (Bhaskara's rational approximation,
\* exact at 0, 30, 90, 150 and 180 degrees, within 0.002 elsewhere).
SinHalfTurn(x) == RDiv(4000 * x * (180 - x), 40500 - x * (180 - x))

\* np.sin / np.cos / np.tan of an angle given in degrees (np.radians first).
SinD(x) == LET r == x % 360 IN IF r <= 180 THEN SinHalfTurn(r) ELSE -SinHalfTurn(r - 180)
CosD(x) == SinD(x + 90)
TanD(x) == RDiv(1000 * SinD(x), CosD(x))

\* np.degrees(np.arctan(t)) for t in 0.001, to the nearest degree:
\* atan(t) = 45 t - t (|t| - 1) (14.02 + 3.80 |t|) degrees for |t| <= 1,
\* and 90 - atan(1 / t) beyond.
ArcTanUnit(t) ==
    RDiv(45 * t - RDiv(RDiv(t * (Abs(t) - 1000), 1000) * (1402 + RDiv(380 * Abs(t), 1000)), 100), 1000)

ArcTanD(t) ==
    IF Abs(t) <= 1000 THEN ArcTanUnit(t)
    ELSE Sgn(t) * 90 - ArcTanUnit(RDiv(1000000, t))

\* np.arcsin(u) and np.arctan2(n, d) with d > 0, for the small ratios of
\* the scan geometry (|ratio| < 0.2): two terms of the series, in 0.001 rad.
ArcSinSmall(u) == u + RDiv(u * u * u, 6000000)
ArcTan2Small(n, d) == LET v == RDiv(1000 * n, d) IN v - RDiv(v * v * v, 3000000)

\* np.sqrt of a non-negative integer, rounded down (Newton's iteration).
RECURSIVE SqrtIter(_, _)
SqrtIter(n, x) == LET y == (x + n \div x) \div 2 IN IF y >= x THEN x ELSE SqrtIter(n, y)
Sqrt(n) == IF n <= 0 THEN 0 ELSE SqrtIter(n, n)

\* np.log(a / b) for a >= b > 0, in 0.001: ln 2 is taken out while a >= 2 b,
\* then 2 (z + z^3 / 3 + z^5 / 5) with z = (a - b) / (a + b).
RECURSIVE LogRatioUp(_, _)
LogRatioUp(a, b) ==
    IF a >= 2 * b THEN 693 + LogRatioUp(a, 2 * b)
    ELSE LET z == RDiv(1000 * (a - b), a + b)
             z3 == RDiv(z * z * z, 1000000)
             z5 == RDiv(z3 * z * z, 1000000)
         IN  2 * z + RDiv(2 * z3, 3) + RDiv(2 * z5, 5)

LogRatio(a, b) == IF a >= b THEN LogRatioUp(a, b) ELSE -LogRatioUp(b, a)

\* np.abs(arr - v).argmin(): the first index (0-based) of a nearest entry.
ArgMinSigned(arr, v) ==
    CHOOSE i \in 0..(Len(arr) - 1) :
        /\ \A k \in 0..(Len(arr) - 1) : arr[i + 1] - v <= arr[k + 1] - v
        /\ \A k \in 0..(i - 1) : arr[k + 1] - v > arr[i + 1] - v

ArgMinAbs(arr, v) ==
    CHOOSE i \in 0..(Len(arr) - 1) :
        /\ \A k \in 0..(Len(arr) - 1) : Abs(arr[i + 1] - v) <= Abs(arr[k + 1] - v)
        /\ \A k \in 0..(i - 1) : Abs(arr[k + 1] - v) > Abs(arr[i + 1] - v)

\* ----------------------------------------------------- time.gmtime/strftime
\* The civil date of a count of days since 1970-01-01 (proleptic Gregorian).
CivilFromDays(days) ==
    LET z == days + 719468
        era == z \div 146097
        doe == z - era * 146097
        yoe == (doe - doe \div 1460 + doe \div 36524 - doe \div 146096) \div 365
        doy == doe - (365 * yoe + yoe \div 4 - yoe \div 100)
        mp == (5 * doy + 2) \div 153
        d == doy - (153 * mp + 2) \div 5 + 1
        m == IF mp < 10 THEN mp + 3 ELSE mp - 9
        y == yoe + era * 400 + (IF m <= 2 THEN 1 ELSE 0)
    IN  <<y, m, d>>

\* time.strftime("%Y-%m-%d %H:%M:%S", time.gmtime(secs)): the fields of the
\* string, in its order.
StrfDateTime(secs) ==
    LET c == CivilFromDays(secs \div 86400)
        r == secs % 86400
    IN  <<c[1], c[2], c[3], r \div 3600, (r % 3600) \div 60, r % 60>>

\* time.strftime("%d-%m-%Y", time.gmtime(secs)).
StrfDay(secs) == LET c == CivilFromDays(secs \div 86400) IN <<c[3], c[2], c[1]>>

\* sorted() of a set of file names (names are ordered as their numbers).
RECURSIVE Sorted(_)
Sorted(S) ==
    IF S = {} THEN <<>>
    ELSE LET m == CHOOSE a \in S : \A b \in S : a <= b
         IN  <<m>> \o Sorted(S \ {m})

\* -------------------------------------------------- the files on the disk
\* Largest number of files of one product in the directory.
MaxFiles == 2

\* File names, ordered as their numbers (the name carries the scan time).
FileIds == 1..MaxFiles

\* The scalar 't' of a file: seconds since 2000-01-01 12:00 UTC, one
\* full-disk scan every 10 minutes.
FileT(f) == 600000000 + 600 * (f - 1)

\* goes_imager_projection attributes (km, degrees), the same in every file.
longitude_of_projection_origin == -75
perspective_point_height == 35786
semi_major_axis == 6378
semi_minor_axis == 6357

\* The 'x' and 'y' scan-angle coordinate arrays of a file (0.001 rad):
\* x grows with the column, y falls with the row.
GridX == [c \in 1..31 |-> -150 + 10 * (c - 1)]
GridY == [r \in 1..31 |-> 150 - 10 * (r - 1)]

\* g16.variables['LVT'][Y, X, j] (0.01 K) and ['LVM'][Y, X, j] (0.001) of
\* file f: a synthetic retrieval, colder and drier with height, that
\* differs from file to file and from cell to cell.
FileLVT(f, Y, X, j) == Fin(28815 - 1200 * j + 50 * (f - 1) - 10 * Abs(Y - 15))
FileLVM(f, Y, X, j) == Fin(600 - 100 * j + 20 * (f - 1) + 5 * X)

\* The 'pressure' profiles (hPa) a run may find in its first file.
Profiles == { <<1000, 850, 700, 500, 300>>, <<300, 500, 700, 850, 1000>>, <<1000>> }

\* ------------------------------------------------------------ the caller
\* Python's None.
None == [k |-> "none", v |-> 0]

\* location: latdeg, londeg.
Locations == { [latdeg |-> 31, londeg |-> -115], [latdeg |-> 0, londeg |-> -75] }

\* (Ra, Dec) as passed: the defaults, or degrees.
Targets == { <<None, None>>, <<Fin(285), Fin(0)>>, <<Fin(255), Fin(30)>> }

\* (P_min, P_max) as passed, hPa; <<300, 750>> are the defaults.
Bounds == { <<300, 750>>, <<750, 300>>, <<750, 750>>, <<775, 775>>, <<100, 2000>> }

Modes == {"zenith", "target", "other"}

\* The altitude and azimuth (degrees) astropy may find for the target at
\* a file's time.
Altitudes == {10, 30, 50}
Azimuths == {0, 90}

VARIABLES
    pc, err, world, args,
    nc_filesT, nc_filesM, epoch, date, day, P, h, g16_data_file,
    P_min, P_max, Ra, Dec, Aa_alt, Aa_az,
    INDEX, INDEXP, DATE, x, y,
    g16_data_fileT, XT, YT, LVT,
    g16_data_fileM, XM, YM, LVM,
    Pi, PWV, out_date

vars == <<pc, err, world, args,
          nc_filesT, nc_filesM, epoch, date, day, P, h, g16_data_file,
          P_min, P_max, Ra, Dec, Aa_alt, Aa_az,
          INDEX, INDEXP, DATE, x, y,
          g16_data_fileT, XT, YT, LVT,
          g16_data_fileM, XM, YM, LVM,
          Pi, PWV, out_date>>

inVars == <<world, args>>
loadVars == <<nc_filesT, nc_filesM, date, day, h>>
boundVars == <<P_min, P_max>>
coordVars == <<Ra, Dec, Aa_alt, Aa_az>>
filterVars == <<INDEX, INDEXP, DATE>>
projVars == <<x, y>>
tempVars == <<g16_data_fileT, XT, YT>>
moistVars == <<g16_data_fileM, XM, YM, LVM>>
outVars == <<Pi, PWV, out_date>>

\* The locals of pwv before they are bound.
LocalsUnbound ==
    /\ nc_filesT = <<>> /\ nc_filesM = <<>> /\ epoch = <<>> /\ date = <<>>
    /\ day = <<>> /\ P = <<>> /\ h = <<>> /\ g16_data_file = <<>>
    /\ Aa_alt = <<>> /\ Aa_az = <<>>
    /\ INDEX = <<>> /\ INDEXP = <<>> /\ DATE = <<>> /\ x = <<>> /\ y = <<>>
    /\ g16_data_fileT = <<>> /\ XT = <<>> /\ YT = <<>> /\ LVT = <<>>
    /\ g16_data_fileM = <<>> /\ XM = <<>> /\ YM = <<>> /\ LVM = <<>>
    /\ Pi = <<>> /\ PWV = <<>> /\ out_date = <<>>

\* A call pwv(location, Ra, Dec, P_min, P_max, line_of_site) against a
\* directory holding any temperature and moisture files.
Init ==
    /\ pc = "start"
    /\ err = ""
    /\ \E dT \in SUBSET FileIds, dM \in SUBSET FileIds, pr \in Profiles :
          world = [dirT |-> dT, dirM |-> dM, pressure |-> pr]
    /\ \E loc \in Locations, tg \in Targets, b \in Bounds, m \in Modes :
          /\ args = [location |-> loc, Ra |-> tg[1], Dec |-> tg[2],
                     P_min |-> b[1], P_max |-> b[2], line_of_site |-> m]
          /\ Ra = tg[1] /\ Dec = tg[2] /\ P_min = b[1] /\ P_max = b[2]
    /\ LocalsUnbound

\* ---------------------------------------------------------------- load_files
R_D == 287
T_s == 288

\* H_sh = float((R_D * T_s) / g), m.
H_sh == RDiv(R_D * T_s * 100, g_centi)

\* h = H_sh * np.log(p0 / P), m, with p0 = P[0].
ScaleHeights(pr) == [j \in 1..Len(pr) |-> RDiv(H_sh * LogRatio(pr[1], pr[j]), 1000)]

\* e = sqrt((r_eq ** 2 - r_pol ** 2) / r_eq ** 2), in 0.0001.
Eccentricity(r_eq, r_pol) ==
    Sqrt(RDiv((r_eq * r_eq - r_pol * r_pol) * 1000, RDiv(r_eq * r_eq, 100000)))

H == perspective_point_height + semi_major_axis
r_eq == semi_major_axis
r_pol == semi_minor_axis
lon_origin == longitude_of_projection_origin
e == Eccentricity(r_eq, r_pol)

\* epoch[i] = 946728000 + int(t[i]).
EpochOf(f) == 946728000 + FileT(f)

\* load_files(): Dataset(nc_filesT[0]) raises IndexError when no
\* temperature file matches; the moisture list is only listed and sorted.
LoadFilesRaisesMutEither(dT, dM) == dT = {} \/ dM = {}

LoadFilesRaises(dT, dM) == Sorted(dT) = <<>>

LoadFiles ==
    /\ pc = "start"
    /\ IF LoadFilesRaises(world.dirT, world.dirM)
       THEN /\ pc' = "error"
            /\ err' = "IndexError"
            /\ UNCHANGED <<loadVars, epoch, P, g16_data_file>>
       ELSE LET T == Sorted(world.dirT) IN
            /\ pc' = "loaded"
            /\ err' = err
            /\ nc_filesT' = T
            /\ nc_filesM' = Sorted(world.dirM)
            /\ P' = world.pressure
            /\ g16_data_file' = T
            /\ epoch' = [i \in 1..Len(T) |-> EpochOf(T[i])]
            /\ date' = [i \in 1..Len(T) |-> StrfDateTime(EpochOf(T[i]))]
            /\ day' = [i \in 1..Len(T) |-> StrfDay(EpochOf(T[i]))]
            /\ h' = ScaleHeights(world.pressure)
    /\ UNCHANGED <<inVars, boundVars, coordVars, filterVars, projVars, tempVars,
                   LVT, moistVars, outVars>>

\* ----------------------------------------------------------------------- pwv
\* P_min = np.abs(P - P_min).argmin(); P_max likewise.
ResolveBounds ==
    /\ pc = "loaded"
    /\ pc' = "bounds"
    /\ P_min' = ArgMinAbs(P, P_min)
    /\ P_max' = ArgMinAbs(P, P_max)
    /\ UNCHANGED <<err, inVars, loadVars, epoch, P, g16_data_file, coordVars,
                   filterVars, projVars, tempVars, LVT, moistVars, outVars>>

\* Ra = float(Ra); Dec = float(Dec): float(None) raises TypeError.  Then
\* the target's altitude and azimuth at every time of `times`.
FloatRaises(v) == v = None

ConvertCoordinates ==
    /\ pc = "bounds"
    /\ IF FloatRaises(Ra) \/ FloatRaises(Dec)
       THEN /\ pc' = "error"
            /\ err' = "TypeError"
            /\ UNCHANGED coordVars
       ELSE /\ pc' = "coords"
            /\ err' = err
            /\ UNCHANGED <<Ra, Dec>>
            /\ Aa_alt' \in [1..Len(nc_filesT) -> Altitudes]
            /\ \E az \in Azimuths : Aa_az' = [i \in 1..Len(nc_filesT) |-> az]
    /\ UNCHANGED <<inVars, loadVars, epoch, P, g16_data_file, boundVars,
                   filterVars, projVars, tempVars, LVT, moistVars, outVars>>

\* np.ravel(np.where(a < 30)): the 0-based indices, ascending.
RECURSIVE IndicesBelow30(_, _)
IndicesBelow30(a, n) ==
    IF n = 0 THEN <<>>
    ELSE IndicesBelow30(a, n - 1) \o (IF a[n] < 30 THEN <<n - 1>> ELSE <<>>)

\* np.ravel(np.where(a > 30)).
RECURSIVE IndicesAbove30(_, _)
IndicesAbove30(a, n) ==
    IF n = 0 THEN <<>>
    ELSE IndicesAbove30(a, n - 1) \o (IF a[n] > 30 THEN <<n - 1>> ELSE <<>>)

\* for index in sorted(INDEX, reverse=True): del EPOCH[index]
RECURSIVE DeleteAt(_, _, _)
DeleteAt(lst, idx, n) ==
    IF n = 0 THEN <<>>
    ELSE DeleteAt(lst, idx, n - 1)
         \o (IF \E k \in 1..Len(idx) : idx[k] = n - 1 THEN <<>> ELSE <<lst[n]>>)

\* Target mode, lines 193-203.  EPOCH is another name of the list epoch, so
\* the deletions shorten epoch too, and range(0, len(epoch)) runs over what
\* is left.
FilterEpochs ==
    /\ pc = "coords"
    /\ args.line_of_site = "target"
    /\ pc' = "filtered"
    /\ INDEX' = IndicesBelow30(Aa_alt, Len(Aa_alt))
    /\ INDEXP' = IndicesAbove30(Aa_alt, Len(Aa_alt))
    /\ epoch' = DeleteAt(epoch, INDEX', Len(epoch))
    /\ DATE' = [i \in 1..Len(epoch') |-> StrfDateTime(epoch'[i])]
    /\ UNCHANGED <<err, inVars, loadVars, P, g16_data_file, boundVars, coordVars,
                   projVars, tempVars, LVT, moistVars, outVars>>

\* astropy.constants.R_earth, m.
R_earth == 6378100

\* lat_origin = arctan(r_pol**2 / r_eq**2 * tan(lat)), degrees.
GeocentricLatitude(lat) ==
    ArcTanD(RDiv(RDiv(r_pol * r_pol, RDiv(r_eq * r_eq, 1000)) * TanD(lat), 1000))

\* r_c = r_pol / sqrt(1 - e**2 * cos(lat_origin)**2), km.
GeocentricRadius(lat_origin) ==
    LET c2 == RDiv(CosD(lat_origin) * CosD(lat_origin), 1000)
        e2 == RDiv(e * e, 100)
    IN  RDiv(1000 * r_pol, Sqrt(1000000 - RDiv(e2 * c2, 1000)))

\* geodetic_to_cartesian(lat_origin, lon_proj_rad, lambda_0, r_c, H): the
\* scan angles <<x, y>>, 0.001 rad.  The lengths are halved before they are
\* squared (the sum of the squares would pass the model's integers).
geodetic_to_cartesian(lat_origin, lon_proj, lambda_0, r_c, H_) ==
    LET rc == RDiv(r_c * CosD(lat_origin), 1000)
        s_x == H_ - RDiv(rc * CosD(lon_proj - lambda_0), 1000)
        s_y == -RDiv(rc * SinD(lon_proj - lambda_0), 1000)
        s_z == RDiv(r_c * SinD(lat_origin), 1000)
        s == 2 * Sqrt((s_x \div 2) * (s_x \div 2) + (s_y \div 2) * (s_y \div 2)
                      + (s_z \div 2) * (s_z \div 2))
    IN  <<ArcSinSmall(RDiv(-s_y * 1000, s)), ArcTan2Small(s_z, s_x)>>

\* The scan angles of the ground point at (lat, lon) degrees: the
\* transform of lines 243-251 and 352-360.
ScanAngles(lat, lon) ==
    LET lat_origin == GeocentricLatitude(lat)
    IN  geodetic_to_cartesian(lat_origin, lon, lon_origin, GeocentricRadius(lat_origin), H)

\* Lines 213-241: the ground point under the line of sight at height hj (m),
\* for altitude alt and azimuth az (degrees), <<lat_proj, lon_proj>>.
ProjectedPoint(loc, hj, alt, az) ==
    LET delta_x == RDiv(1000 * hj, TanD(alt))
        d_lat == RDiv(delta_x * CosD(az), 1000)
        d_lon == RDiv(delta_x * SinD(az), 1000)
    IN  <<loc.latdeg + ArcTanD(RDiv(1000 * d_lat, R_earth)),
          loc.londeg + ArcTanD(RDiv(1000 * d_lon, R_earth))>>

\* Lines 205-251: x[i, j], y[i, j] for every time i and every level j.
ProjectTarget ==
    /\ pc = "filtered"
    /\ pc' = "projected"
    /\ LET pt(i, j) == ProjectedPoint(args.location, h[j], Aa_alt[i], Aa_az[i])
           sc(i, j) == ScanAngles(pt(i, j)[1], pt(i, j)[2])
       IN  /\ x' = [i \in 1..Len(Aa_alt) |-> [j \in 1..Len(h) |-> sc(i, j)[1]]]
           /\ y' = [i \in 1..Len(Aa_alt) |-> [j \in 1..Len(h) |-> sc(i, j)[2]]]
    /\ UNCHANGED <<err, inVars, loadVars, epoch, P, g16_data_file, boundVars,
                   coordVars, filterVars, tempVars, LVT, moistVars, outVars>>

\* range(P_min, P_max + 1) as a sequence of 0-based levels.
LevelRange(lo, hi) == [k \in 1..(hi - lo + 1) |-> lo + k - 1]

\* Lines 261-283: the temperature of every retained time at every level of
\* the range, read at the grid cell nearest to (x[i, j], y[i, j]).
RetrieveTemperatureTarget ==
    /\ pc = "projected"
    /\ pc' = "temperature"
    /\ LET lv == LevelRange(P_min, P_max)
           Xi(i) == [k \in 1..Len(lv) |-> ArgMinAbs(GridX, x[i + 1][lv[k] + 1])]
           Yi(i) == [k \in 1..Len(lv) |-> ArgMinAbs(GridY, y[i + 1][lv[k] + 1])]
       IN  /\ g16_data_fileT' = [n \in 1..Len(INDEXP) |-> nc_filesT[INDEXP[n] + 1]]
           /\ XT' = [n \in 1..Len(INDEXP) |-> Xi(INDEXP[n])]
           /\ YT' = [n \in 1..Len(INDEXP) |-> Yi(INDEXP[n])]
           /\ LVT' = [n \in 1..Len(INDEXP) |->
                        [k \in 1..Len(lv) |->
                            FileLVT(nc_filesT[INDEXP[n] + 1], Yi(INDEXP[n])[k],
                                    Xi(INDEXP[n])[k], lv[k])]]
    /\ UNCHANGED <<err, inVars, loadVars, epoch, P, g16_data_file, boundVars,
                   coordVars, filterVars, projVars, moistVars, outVars>>

\* Lines 293-315: the same for the moisture files; nc_filesM[i] raises
\* IndexError when there are fewer moisture files than i + 1.
RetrieveMoistureTarget ==
    /\ pc = "temperature"
    /\ IF \E n \in 1..Len(INDEXP) : INDEXP[n] >= Len(nc_filesM)
       THEN /\ pc' = "error"
            /\ err' = "IndexError"
            /\ UNCHANGED moistVars
       ELSE LET lv == LevelRange(P_min, P_max)
                Xi(i) == [k \in 1..Len(lv) |-> ArgMinAbs(GridX, x[i + 1][lv[k] + 1])]
                Yi(i) == [k \in 1..Len(lv) |-> ArgMinAbs(GridY, y[i + 1][lv[k] + 1])]
            IN  /\ pc' = "moisture"
                /\ err' = err
                /\ g16_data_fileM' = [n \in 1..Len(INDEXP) |-> nc_filesM[INDEXP[n] + 1]]
                /\ XM' = [n \in 1..Len(INDEXP) |-> Xi(INDEXP[n])]
                /\ YM' = [n \in 1..Len(INDEXP) |-> Yi(INDEXP[n])]
                /\ LVM' = [n \in 1..Len(INDEXP) |->
                             [k \in 1..Len(lv) |->
                                 FileLVM(nc_filesM[INDEXP[n] + 1], Yi(INDEXP[n])[k],
                                         Xi(INDEXP[n])[k], lv[k])]]
    /\ UNCHANGED <<inVars, loadVars, epoch, P, g16_data_file, boundVars,
                   coordVars, filterVars, projVars, tempVars, LVT, outVars>>

\* LVT - 273.15 on every element (0.01 K to 0.01 degC).
ToCelsius(A) == [n \in 1..Len(A) |-> [k \in 1..Len(A[n]) |-> FSub(A[n][k], Fin(27315))]]

\* 100 * P as the float array handed to pwv_integral (Pa).
AsFloats(pr) == [j \in 1..Len(pr) |-> Fin(pr[j])]

\* Lines 317-346: P = 100*P; LVT = LVT-273.15; Pi = P[P_min:P_max + 1];
\* PWV = pwv_integral(LVT, LVM, Pi); out_date = DATE.  (The plot changes
\* nothing that is returned.)
IntegrateTarget ==
    /\ pc = "moisture"
    /\ P' = [j \in 1..Len(P) |-> 100 * P[j]]
    /\ LVT' = ToCelsius(LVT)
    /\ Pi' = AsFloats(SubSeq(P', P_min + 1, P_max + 1))
    /\ LET r == pwv_integral(LVT', LVM, Pi')
       IN  IF r.err # ""
           THEN /\ pc' = "error"
                /\ err' = r.err
                /\ UNCHANGED <<PWV, out_date>>
           ELSE /\ pc' = "done"
                /\ err' = err
                /\ PWV' = r.val
                /\ out_date' = DATE
    /\ UNCHANGED <<inVars, loadVars, epoch, g16_data_file, boundVars, coordVars,
                   filterVars, projVars, tempVars, moistVars>>

\* Zenith mode, lines 352-360: one scan-angle pair, from latt = Dec and
\* lont = Ra (lines 188-189).
ZenithPoint(loc, ra, dec) == <<dec.v, ra.v>>

ProjectZenith ==
    /\ pc = "coords"
    /\ args.line_of_site = "zenith"
    /\ pc' = "projected_z"
    /\ LET pt == ZenithPoint(args.location, Ra, Dec)
           sc == ScanAngles(pt[1], pt[2])
       IN  x' = sc[1] /\ y' = sc[2]
    /\ UNCHANGED <<err, inVars, loadVars, epoch, P, g16_data_file, boundVars,
                   coordVars, filterVars, tempVars, LVT, moistVars, outVars>>

\* Lines 366-388: every temperature file, every level of the profile, at
\* the one grid cell.  XT and YT are rebuilt for each file, so they end as
\* the last file's.
RetrieveTemperatureZenith ==
    /\ pc = "projected_z"
    /\ pc' = "temperature_z"
    /\ LET Xtemp == ArgMinAbs(GridX, x)
           Ytemp == ArgMinAbs(GridY, y)
       IN  /\ g16_data_file' = g16_data_file \o nc_filesT
           /\ XT' = [j \in 1..Len(P) |-> Xtemp]
           /\ YT' = [j \in 1..Len(P) |-> Ytemp]
           /\ LVT' = [i \in 1..Len(nc_filesT) |->
                        [j \in 1..Len(P) |-> FileLVT(g16_data_file[i], Ytemp, Xtemp, j - 1)]]
    /\ UNCHANGED <<err, inVars, loadVars, epoch, P, boundVars, coordVars, filterVars,
                   projVars, g16_data_fileT, moistVars, outVars>>

\* Lines 391-417: every moisture file, however many there are.
RetrieveMoistureZenith ==
    /\ pc = "temperature_z"
    /\ pc' = "moisture_z"
    /\ LET Xtemp == ArgMinAbs(GridX, x)
           Ytemp == ArgMinAbs(GridY, y)
       IN  /\ g16_data_fileM' = nc_filesM
           /\ XM' = IF nc_filesM = <<>> THEN XM ELSE [j \in 1..Len(P) |-> Xtemp]
           /\ YM' = IF nc_filesM = <<>> THEN YM ELSE [j \in 1..Len(P) |-> Ytemp]
           /\ LVM' = [i \in 1..Len(nc_filesM) |->
                        [j \in 1..Len(P) |-> FileLVM(nc_filesM[i], Ytemp, Xtemp, j - 1)]]
    /\ UNCHANGED <<err, inVars, loadVars, epoch, P, g16_data_file, boundVars,
                   coordVars, filterVars, projVars, tempVars, LVT, outVars>>

\* Lines 420-444: P = 100*P; LVT = LVT-273.15; PWV = pwv_integral(LVT, LVM, P);
\* out_date = date.
IntegrateZenith ==
    /\ pc = "moisture_z"
    /\ P' = [j \in 1..Len(P) |-> 100 * P[j]]
    /\ LVT' = ToCelsius(LVT)
    /\ LET r == pwv_integral(LVT', LVM, AsFloats(P'))
       IN  IF r.err # ""
           THEN /\ pc' = "error"
                /\ err' = r.err
                /\ UNCHANGED <<PWV, out_date>>
           ELSE /\ pc' = "done"
                /\ err' = err
                /\ PWV' = r.val
                /\ out_date' = date
    /\ UNCHANGED <<inVars, loadVars, epoch, g16_data_file, boundVars, coordVars,
                   filterVars, projVars, tempVars, moistVars, Pi>>

\* Any other line_of_site: neither branch runs and `return out_date, PWV`
\* raises UnboundLocalError.
ReturnUnbound ==
    /\ pc = "coords"
    /\ args.line_of_site \notin {"target", "zenith"}
    /\ pc' = "error"
    /\ err' = "UnboundLocalError"
    /\ UNCHANGED <<inVars, loadVars, epoch, P, g16_data_file, boundVars, coordVars,
                   filterVars, projVars, tempVars, LVT, moistVars, outVars>>

Next ==
    \/ LoadFiles
    \/ ResolveBounds
    \/ ConvertCoordinates
    \/ FilterEpochs
    \/ ProjectTarget
    \/ RetrieveTemperatureTarget
    \/ RetrieveMoistureTarget
    \/ IntegrateTarget
    \/ ProjectZenith
    \/ RetrieveTemperatureZenith
    \/ RetrieveMoistureZenith
    \/ IntegrateZenith
    \/ ReturnUnbound

Spec == Init /\ [][Next]_vars

\* ------------------------------------------- prefixes of a call of pwv
\* load_files alone, and load_files with the resolution of the bounds.
SpecLoad == Init /\ [][LoadFiles]_vars

NextBounds ==
    \/ LoadFiles
    \/ ResolveBounds

SpecBounds == Init /\ [][NextBounds]_vars

\* ------------------------------------------------- pwv_integral on its own
\* One (LVT, LVM) pair of a sample at a level: 0.01 degC and 0.001; a
\* missing humidity is nan.
Cells == { <<Fin(0), Fin(1000)>>, <<Fin(-2000), Fin(100)>>, <<Fin(0), NaN>> }

\* Pressure levels (Pa) in the order given: falling, rising, neither; 231 Pa
\* is where Pi - 0.378 * ev is zero for the first cell.  The samples have
\* one column per level, a single column that numpy repeats, or two
\* columns (which three levels cannot be broadcast with).
Pressures ==
    { <<100000, 90000>>, <<90000, 100000>>, <<100100, 100000>>,
      <<100000, 70000, 85000>>, <<231, 90000>>, <<90000, 231>>, <<100000>> }

InitIntegral ==
    /\ pc = "pwv_integral"
    /\ err = ""
    /\ world = [dirT |-> {}, dirM |-> {}, pressure |-> <<>>]
    /\ args = [location |-> [latdeg |-> 0, londeg |-> 0], Ra |-> None, Dec |-> None,
               P_min |-> 300, P_max |-> 750, line_of_site |-> "zenith"]
    /\ Ra = None /\ Dec = None /\ P_min = 300 /\ P_max = 750
    /\ nc_filesT = <<>> /\ nc_filesM = <<>> /\ epoch = <<>> /\ date = <<>>
    /\ day = <<>> /\ P = <<>> /\ h = <<>> /\ g16_data_file = <<>>
    /\ Aa_alt = <<>> /\ Aa_az = <<>>
    /\ INDEX = <<>> /\ INDEXP = <<>> /\ DATE = <<>> /\ x = <<>> /\ y = <<>>
    /\ g16_data_fileT = <<>> /\ XT = <<>> /\ YT = <<>>
    /\ g16_data_fileM = <<>> /\ XM = <<>> /\ YM = <<>>
    /\ PWV = <<>> /\ out_date = <<>>
    /\ \E pr \in Pressures, n \in 1..MaxRows :
          \E L \in {1, 2, Len(pr)} : \E A \in [1..n -> [1..L -> Cells]] :
             /\ Pi = AsFloats(pr)
             /\ LVT = [j \in 1..n |-> [i \in DOMAIN A[j] |-> A[j][i][1]]]
             /\ LVM = [j \in 1..n |-> [i \in DOMAIN A[j] |-> A[j][i][2]]]

CallPwvIntegral ==
    /\ pc = "pwv_integral"
    /\ LET r == pwv_integral(LVT, LVM, Pi)
       IN  IF r.err # ""
           THEN pc' = "error" /\ err' = r.err /\ PWV' = PWV
           ELSE pc' = "returned" /\ err' = err /\ PWV' = r.val
    /\ UNCHANGED <<inVars, loadVars, epoch, P, g16_data_file, boundVars, coordVars,
                   filterVars, projVars, tempVars, LVT, moistVars, Pi, out_date>>

SpecIntegral == InitIntegral /\ [][CallPwvIntegral]_vars

\* ================================================================ claims
Zenith == args.line_of_site = "zenith"
Target == args.line_of_site = "target"
Decreasing(pr) == \A i \in 1..(Len(pr) - 1) : pr[i] > pr[i + 1]
StandardProfile == <<1000, 850, 700, 500, 300>>

\* The temperature file that produced row k of the result.
SourceFile(k) == IF Target THEN g16_data_fileT[k] ELSE g16_data_file[k]

\* The number of times whose altitude is strictly above 30 degrees.
CountAbove30 == Cardinality({i \in 1..Len(Aa_alt) : Aa_alt[i] > 30})

\* C1: whenever pwv returns, the dates and the PWV values have the same
\* length and the date at k is the timestamp of the file that produced the
\* PWV value at k.
C1_DatesAligned ==
    pc = "done" =>
        /\ Len(out_date) = Len(PWV)
        /\ \A k \in 1..Len(PWV) : out_date[k] = StrfDateTime(EpochOf(SourceFile(k)))

\* C2: on return, zenith mode gives one date per temperature file, and
\* target mode one date per time whose altitude is strictly above 30
\* degrees, the same times the lookups read.
C2_DateCount ==
    pc = "done" =>
        /\ Zenith => Len(out_date) = Len(nc_filesT)
        /\ Target => Len(out_date) = CountAbove30 /\ Len(g16_data_fileT) = CountAbove30

\* C3: a zenith call without Ra and Dec, on a directory with the same
\* temperature and moisture files, raises no error.
C3_RaDecOptional ==
    (Zenith /\ args.Ra = None /\ args.Dec = None
        /\ world.dirT # {} /\ world.dirM = world.dirT) => pc # "error"

\* C4: in zenith mode the grid cell read in every file is the cell of the
\* observing site's latitude and longitude.
C4_ZenithCellOfSite ==
    (pc = "done" /\ Zenith) =>
        LET sc == ScanAngles(args.location.latdeg, args.location.londeg)
        IN  /\ \A j \in 1..Len(XT) : XT[j] = ArgMinAbs(GridX, sc[1])
            /\ \A j \in 1..Len(YT) : YT[j] = ArgMinAbs(GridY, sc[2])

\* C5: in target mode, with at least one temperature file and no altitude
\* above 30 degrees, pwv raises no error and returns no date and no PWV
\* value, whatever the profile and the bounds.
C5_EmptyWithoutError ==
    (Target /\ Len(Aa_alt) >= 1 /\ \A i \in 1..Len(Aa_alt) : Aa_alt[i] <= 30) =>
        /\ pc # "error"
        /\ pc = "done" => out_date = <<>> /\ PWV = <<>>

\* The 0-based levels from a to b, whichever is larger.
LevelsBetween(a, b) == {j \in 0..(Len(world.pressure) - 1) : (a <= j /\ j <= b) \/ (b <= j /\ j <= a)}

\* C7: in target mode, for a profile that falls with the index and
\* P_min <= P_max, the levels read and integrated for a retained time are
\* the levels from the one nearest P_min to the one nearest P_max: at least
\* one.
C7_LevelsRead ==
    (pc = "done" /\ Target /\ INDEXP # <<>> /\ Decreasing(world.pressure)
        /\ args.P_min <= args.P_max) =>
        /\ Pi # <<>>
        /\ {Pi[k].v : k \in 1..Len(Pi)} = {100 * world.pressure[j + 1] : j \in LevelsBetween(P_min, P_max)}
        /\ \A n \in 1..Len(LVT) : Len(LVT[n]) = Cardinality(LevelsBetween(P_min, P_max))

\* i is an index of pr nearest to the bound b.
IsNearest(pr, b, i) ==
    /\ i \in 0..(Len(pr) - 1)
    /\ \A k \in 1..Len(pr) : Abs(pr[i + 1] - b) <= Abs(pr[k] - b)

\* C8 (as amended): each bound resolves to an index whose pressure is
\* nearest to it, and for the profile [1000, 850, 700, 500, 300] and
\* P_min = 750 that index is 2.
C8_NearestIndex ==
    pc = "bounds" =>
        /\ IsNearest(world.pressure, args.P_min, P_min)
        /\ IsNearest(world.pressure, args.P_max, P_max)
        /\ (world.pressure = StandardProfile /\ args.P_min = 750) => P_min = 2

\* C8 as stated: ... that index is 1.
C8_AsStated ==
    pc = "bounds" =>
        /\ IsNearest(world.pressure, args.P_min, P_min)
        /\ IsNearest(world.pressure, args.P_max, P_max)
        /\ (world.pressure = StandardProfile /\ args.P_min = 750) => P_min = 1

\* The bounds of a call were resolved on the standard profile with
\* P_min = 750 and P_max = 300.
C8_Witness ==
    /\ pc = "bounds"
    /\ world.pressure = StandardProfile
    /\ args.P_min = 750 /\ P_min = 2
    /\ args.P_max = 300 /\ P_max = 4

\* C10 (as amended): load_files raises exactly when no temperature file
\* matches; with a temperature file and no moisture file it returns, with
\* an empty moisture list.
C10_LoadFails ==
    pc # "start" =>
        /\ (pc = "error") <=> (world.dirT = {})
        /\ pc = "error" => err = "IndexError"
        /\ pc = "loaded" => nc_filesT = Sorted(world.dirT) /\ nc_filesM = Sorted(world.dirM)

\* C10 as stated: load_files raises whenever either pattern has no match.
C10_AsStated ==
    (pc # "start" /\ (world.dirT = {} \/ world.dirM = {})) => pc = "error"

\* load_files returned although no moisture file matched.
C10_Witness == pc = "loaded" /\ world.dirT # {} /\ world.dirM = {} /\ nc_filesM = <<>>

\* The trapezoidal sum of sample j before nan_to_num.
RawSum(j) == TrapezoidSum(LVT, LVM, Pi, j, Len(Pi))

\* C6 (as amended): pwv_integral returns no non-finite value: a nan sum is
\* returned as 0, a +inf sum as the largest finite double, a -inf sum as
\* the most negative one, and a finite sum unchanged.
C6_NanToNum ==
    pc = "returned" =>
        \A j \in 1..Len(PWV) :
            /\ IsFin(PWV[j])
            /\ IsNaN(RawSum(j)) => PWV[j] = Fin(0)
            /\ RawSum(j) = PInf => PWV[j] = Fin(FloatMax)
            /\ RawSum(j) = NInf => PWV[j] = Fin(-FloatMax)
            /\ IsFin(RawSum(j)) => PWV[j] = RawSum(j)

\* C6 as stated: every non-finite sum is returned as exactly zero.
C6_AsStated ==
    pc = "returned" =>
        \A j \in 1..Len(PWV) :
            /\ IsFin(PWV[j])
            /\ ~IsFin(RawSum(j)) => PWV[j] = Fin(0)
            /\ IsFin(RawSum(j)) => PWV[j] = RawSum(j)

\* pwv_integral returned for samples with a nan sum, a +inf sum and a
\* -inf sum.
C6_Witness ==
    /\ pc = "returned"
    /\ Len(PWV) = 2
    /\ IsNaN(RawSum(1)) /\ PWV[1] = Fin(0)
    /\ RawSum(2) = PInf /\ PWV[2] = Fin(FloatMax)

\* The integrand of sample j at level i (1-based).
F(j, i) == FCell(LVT, LVM, Pi, j, i)

\* Sum over the consecutive level pairs, in the order given, of the
\* pressure difference times the sum of the two integrand values (twice
\* their mean: PWV is carried in half quanta).
RECURSIVE OrderedSum(_, _)
OrderedSum(j, n) ==
    IF n <= 1 THEN 0
    ELSE OrderedSum(j, n - 1) + (Pi[n].v - Pi[n - 1].v) * (F(j, n).v + F(j, n - 1).v)

SingleSampleTwoLevelsConstantF ==
    /\ Len(LVT) = 1 /\ Len(Pi) = 2
    /\ IsFin(F(1, 1)) /\ F(1, 2) = F(1, 1)

\* C9 (as amended): for a sample whose integrand is finite at every level
\* pwv_integral returns the ordered trapezoidal sum; for one sample, two
\* levels and the same integrand f at both, that is (P[1] - P[0]) * f.
C9_Trapezoid ==
    pc = "returned" =>
        /\ \A j \in 1..Len(PWV) :
              (\A i \in 1..Len(Pi) : IsFin(F(j, i))) => PWV[j] = Fin(OrderedSum(j, Len(Pi)))
        /\ SingleSampleTwoLevelsConstantF =>
              PWV[1] = Fin((Pi[2].v - Pi[1].v) * (2 * F(1, 1).v))

\* C9 as stated: ... that is (P[0] - P[1]) * f.
C9_AsStated ==
    pc = "returned" =>
        /\ \A j \in 1..Len(PWV) :
              (\A i \in 1..Len(Pi) : IsFin(F(j, i))) => PWV[j] = Fin(OrderedSum(j, Len(Pi)))
        /\ SingleSampleTwoLevelsConstantF =>
              PWV[1] = Fin((Pi[1].v - Pi[2].v) * (2 * F(1, 1).v))

\* pwv_integral returned for one sample, two different levels and the same
\* non-zero integrand at both.
C9_Witness ==
    /\ pc = "returned"
    /\ SingleSampleTwoLevelsConstantF
    /\ Pi[1] # Pi[2]
    /\ F(1, 1).v # 0

=============================================================================
